---- MODULE Spec2Model ----
(***************************************************************************)
(* The CPU probe of appsignal/probes (src/src/cpu.rs): the two readers     *)
(* read_and_parse_proc_stat and read_and_parse_sys_stat, the delta         *)
(* calculation CpuMeasurement::calculate_per_minute and the percentage     *)
(* calculation CpuStat::in_percentages.                                    *)
(*                                                                         *)
(* Numbers.  TLC's integers are 32 bits wide, so the u64 of the source is  *)
(* modelled by a word of WordBits bits (Modulus = 2^WordBits) and          *)
(* timestamps are counted in units of 10 seconds instead of nanoseconds    *)
(* (the reference interval of 60_000_000_000 ns is 6 units; for            *)
(* timestamps that are whole multiples of 10 s the quotient                *)
(* delta * elapsed / reference is the same in both units).                 *)
(***************************************************************************)
EXTENDS Integers, Sequences, FiniteSets, TLC

VARIABLES overflow_checks, self, next_measurement, result

vars == <<overflow_checks, self, next_measurement, result>>

(***************************************************************************)
(* Bounds of the model.                                                    *)
(***************************************************************************)
WordBits == 25
MaxStatLines == 3
MaxStats == 10

Modulus == 2^WordBits

(***************************************************************************)
(* CpuStat: total and the ten counters, in declaration order.              *)
(***************************************************************************)
Counters ==
  <<"user", "nice", "system", "idle", "iowait", "irq", "softirq", "steal", "guest", "guestnice">>

CounterSet == {Counters[i] : i \in 1..Len(Counters)}

CpuStatFields == {"total"} \cup CounterSet

CpuStat(total, user, nice, system, idle, iowait, irq, softirq, steal, guest, guestnice) ==
  [total |-> total, user |-> user, nice |-> nice, system |-> system, idle |-> idle,
   iowait |-> iowait, irq |-> irq, softirq |-> softirq, steal |-> steal, guest |-> guest,
   guestnice |-> guestnice]

CpuMeasurement(time, stat) == [precise_time_ns |-> time, stat |-> stat]

NoMeasurement == [precise_time_ns |-> -1]

(***************************************************************************)
(* Outcomes of a call: Ok(value), Err(kind), or a panic of the thread.     *)
(***************************************************************************)
Ok(v) == [status |-> "Ok", value |-> v]
Err(kind) == [status |-> "Err", error |-> kind]
Panic == [status |-> "Panic"]

(***************************************************************************)
(* u64 arithmetic.  An operation whose result does not fit the word panics *)
(* when the build has overflow checks (overflow_checks, the debug profile) *)
(* and wraps modulo the word otherwise (the release profile).              *)
(***************************************************************************)
WrappingSub(a, b) == (a - b + Modulus) % Modulus
WrappingAdd(a, b) == (a + b) % Modulus
WrappingMul(a, b) == (a * b) % Modulus

(***************************************************************************)
(* Text.  A word is a sequence of characters; a line is the sequence of    *)
(* words split_whitespace yields.                                          *)
(***************************************************************************)
Digits == <<"0", "1", "2", "3", "4", "5", "6", "7", "8", "9">>

IsDigit(c) == \E i \in 1..10 : Digits[i] = c

DigitValue(c) == (CHOOSE i \in 1..10 : Digits[i] = c) - 1

\* parse_u64: the decimal value of the word, an error on an empty word, on a
\* character that is no digit and on a value that does not fit the word.
RECURSIVE ParseDigits(_, _, _)
ParseDigits(word, i, acc) ==
  IF i > Len(word) THEN Ok(acc)
  ELSE IF ~IsDigit(word[i]) THEN Err("UnexpectedContent")
  ELSE LET v == acc * 10 + DigitValue(word[i])
       IN IF v >= Modulus THEN Err("UnexpectedContent") ELSE ParseDigits(word, i + 1, v)

parse_u64(word) ==
  IF Len(word) = 0 THEN Err("UnexpectedContent") ELSE ParseDigits(word, 1, 0)

Zero == <<"0">>

\* stats.get(i).unwrap_or(&"0"), with i counted from 0 as in the source
GetOrZero(stats, i) == IF i + 1 <= Len(stats) THEN stats[i + 1] ELSE Zero

(***************************************************************************)
(* os::read_and_parse_proc_stat on the words of the first line of the file *)
(* (label included), read at clock value `time`.                           *)
(***************************************************************************)
ProcStatTotal(cpu) ==
  LET idlealltime == WrappingAdd(cpu.idle, cpu.iowait)
      systemalltime == WrappingAdd(WrappingAdd(cpu.system, cpu.irq), cpu.softirq)
      virtualtime == WrappingAdd(cpu.guest, cpu.guestnice)
      total == WrappingAdd(WrappingAdd(WrappingAdd(WrappingAdd(WrappingAdd(
                 cpu.user, cpu.nice), systemalltime), idlealltime), cpu.steal), virtualtime)
      \* all terms are non-negative, so some addition overflows exactly when
      \* the mathematical sum does not fit the word
      exact == cpu.user + cpu.nice + cpu.system + cpu.irq + cpu.softirq + cpu.idle
                 + cpu.iowait + cpu.steal + cpu.guest + cpu.guestnice
  IN IF overflow_checks /\ exact >= Modulus THEN Panic ELSE Ok(total)

read_and_parse_proc_stat(file, time) ==
  IF ~file.exists THEN Err("IO")
  ELSE
    LET line == file.line
        stats == SubSeq(line, 2, Len(line))
        length == Len(stats)
    IN IF length < 5 THEN Err("UnexpectedContent")
       ELSE
         LET usertime == parse_u64(stats[1])
             nicetime == parse_u64(stats[2])
             guest == parse_u64(GetOrZero(stats, 8))
             guestnice == parse_u64(GetOrZero(stats, 9))
             system == parse_u64(stats[3])
             idle == parse_u64(stats[4])
             iowait == parse_u64(stats[5])
             irq == parse_u64(GetOrZero(stats, 5))
             softirq == parse_u64(GetOrZero(stats, 6))
             steal == parse_u64(GetOrZero(stats, 7))
         IN IF usertime.status = "Err" THEN usertime
            ELSE IF nicetime.status = "Err" THEN nicetime
            ELSE IF guest.status = "Err" THEN guest
            ELSE IF guestnice.status = "Err" THEN guestnice
            ELSE IF overflow_checks /\ usertime.value < guest.value THEN Panic
            ELSE IF overflow_checks /\ nicetime.value < guestnice.value THEN Panic
            ELSE IF system.status = "Err" THEN system
            ELSE IF idle.status = "Err" THEN idle
            ELSE IF iowait.status = "Err" THEN iowait
            ELSE IF irq.status = "Err" THEN irq
            ELSE IF softirq.status = "Err" THEN softirq
            ELSE IF steal.status = "Err" THEN steal
            ELSE
              LET cpu == CpuStat(0,
                                 WrappingSub(usertime.value, guest.value),
                                 WrappingSub(nicetime.value, guestnice.value),
                                 system.value, idle.value, iowait.value, irq.value,
                                 softirq.value, steal.value, guest.value, guestnice.value)
                  total == ProcStatTotal(cpu)
              IN IF total.status = "Panic" THEN Panic
                 ELSE Ok(CpuMeasurement(time, [cpu EXCEPT !.total = total.value]))

(***************************************************************************)
(* os::read_and_parse_sys_stat on the directory's two files: the word in   *)
(* cpuacct.usage and the lines of cpuacct.stat, read at clock `time`.      *)
(***************************************************************************)
CPU_SYS_NUMBER_OF_FIELDS == 2

NanosPerUserTick == 10000000

nano_to_user(value) == value \div NanosPerUserTick

KeyUser == <<"u", "s", "e", "r">>
KeySystem == <<"s", "y", "s", "t", "e", "m">>

\* the `for line in reader.lines()` loop from line i on; segments[1] of a
\* line with fewer than two words is an index out of bounds
RECURSIVE ScanStatLines(_, _, _, _)
ScanStatLines(lines, i, cpu, fields_encountered) ==
  IF i > Len(lines) THEN [status |-> "Ok", cpu |-> cpu, fields_encountered |-> fields_encountered]
  ELSE
    LET segments == lines[i]
    IN IF Len(segments) < 2 THEN Panic
       ELSE
         LET value == parse_u64(segments[2])
         IN IF value.status = "Err" THEN value
            ELSE
              LET cpu1 == IF segments[1] = KeyUser THEN [cpu EXCEPT !.user = value.value]
                          ELSE IF segments[1] = KeySystem THEN [cpu EXCEPT !.system = value.value]
                          ELSE cpu
                  seen == IF segments[1] = KeyUser \/ segments[1] = KeySystem
                          THEN fields_encountered + 1
                          ELSE fields_encountered
              IN IF seen = CPU_SYS_NUMBER_OF_FIELDS
                 THEN [status |-> "Ok", cpu |-> cpu1, fields_encountered |-> seen]
                 ELSE ScanStatLines(lines, i + 1, cpu1, seen)

read_and_parse_sys_stat(dir, time) ==
  IF ~dir.exists THEN Err("IO")
  ELSE
    LET usage == dir.usage
        lines == dir.stat
        total == parse_u64(usage)
    IN IF total.status = "Err" THEN total
       ELSE
         LET cpu == CpuStat(nano_to_user(total.value), 0, 0, 0, 0, 0, 0, 0, 0, 0, 0)
             scan == ScanStatLines(lines, 1, cpu, 0)
         IN IF scan.status # "Ok" THEN scan
            ELSE IF scan.fields_encountered # CPU_SYS_NUMBER_OF_FIELDS
            THEN Err("UnexpectedContent")
            ELSE Ok(CpuMeasurement(time, scan.cpu))

(***************************************************************************)
(* calculate_time_difference and time_adjusted are called by cpu.rs but    *)
(* defined in the crate root.  The error kinds follow the specification    *)
(* (strict time ordering, InvalidInput; a lower later value,               *)
(* UnexpectedContent); the direction of the scaling follows                *)
(* test_calculate_per_minute_partial_minute (cpu.rs 416-469): an increase  *)
(* of 6 over 30 s gives 3.  The product is a u64 product.                  *)
(***************************************************************************)
ReferenceInterval == 6

calculate_time_difference(first_time, second_time) ==
  IF first_time >= second_time THEN Err("InvalidInput") ELSE Ok(second_time - first_time)

time_adjusted(field_name, first_value, second_value, time_difference) ==
  IF first_value < second_value THEN Err("UnexpectedContent")
  ELSE IF overflow_checks /\ (first_value - second_value) * time_difference >= Modulus THEN Panic
  ELSE Ok(WrappingMul(first_value - second_value, time_difference) \div ReferenceInterval)

(***************************************************************************)
(* CpuMeasurement::calculate_per_minute: the fields are adjusted in the    *)
(* order of the struct literal, total first; the first failure ends it.    *)
(***************************************************************************)
AdjustOrder == <<"total">> \o Counters

\* try! on each field of the struct literal in turn
FirstFailureOrStat(adjusted) ==
  LET failed == {i \in 1..Len(AdjustOrder) : adjusted[AdjustOrder[i]].status # "Ok"}
  IN IF failed # {}
     THEN adjusted[AdjustOrder[CHOOSE i \in failed : \A j \in failed : i <= j]]
     ELSE Ok([f \in CpuStatFields |-> adjusted[f].value])

\* variant: the result of calculate_time_difference is not checked
calculate_per_minute_unchecked_time(this, next) ==
  LET time_difference == next.precise_time_ns - this.precise_time_ns
  IN FirstFailureOrStat([f \in CpuStatFields |->
       time_adjusted(f, next.stat[f], this.stat[f], time_difference)])

\* variant: the steal line reads the guest counters
calculate_per_minute_steal_from_guest(this, next) ==
  LET time_difference == calculate_time_difference(this.precise_time_ns, next.precise_time_ns)
      from(f) == IF f = "steal" THEN "guest" ELSE f
  IN IF time_difference.status = "Err" THEN time_difference
     ELSE FirstFailureOrStat([f \in CpuStatFields |->
            time_adjusted(f, next.stat[from(f)], this.stat[from(f)], time_difference.value)])

\* variant: the increase is not adjusted to the elapsed time
calculate_per_minute_unscaled(this, next) ==
  LET time_difference == calculate_time_difference(this.precise_time_ns, next.precise_time_ns)
  IN IF time_difference.status = "Err" THEN time_difference
     ELSE FirstFailureOrStat([f \in CpuStatFields |->
            time_adjusted(f, next.stat[f], this.stat[f], ReferenceInterval)])

calculate_per_minute(this, next) ==
  LET time_difference == calculate_time_difference(this.precise_time_ns, next.precise_time_ns)
  IN IF time_difference.status = "Err" THEN time_difference
     ELSE FirstFailureOrStat([f \in CpuStatFields |->
            time_adjusted(f, next.stat[f], this.stat[f], time_difference.value)])

(***************************************************************************)
(* CpuStat::in_percentages.  percentage_of_total is                        *)
(* (value as f64 / self.total as f64 * 100.0) as f32: 0/0 is NaN, x/0 is   *)
(* +infinity, and otherwise the percentage is kept as the exact fraction   *)
(* 100 * numerator / denominator (the two roundings change it by less than *)
(* one part in 2^23).                                                      *)
(***************************************************************************)
percentage_of_total(stat, value) ==
  IF stat.total = 0
  THEN IF value = 0 THEN [kind |-> "NaN"] ELSE [kind |-> "Infinity"]
  ELSE [kind |-> "Finite", numerator |-> value, denominator |-> stat.total]

in_percentages(stat) == [f \in CounterSet |-> percentage_of_total(stat, stat[f])]

(***************************************************************************)
(* Inputs.                                                                 *)
(***************************************************************************)
Word(d) == <<Digits[d + 1]>>
Garbage == <<"x">>
Label == <<"c", "p", "u">>

\* Timestamps in units of 10 s.  The first measurement is taken at 90 s; a
\* second reading of the monotonic clock is not earlier than the first, a
\* timestamp written in a struct literal can be.
FirstTimes == {9}
ClockTimes == {9, 12, 15}
LiteralTimes == {6, 9, 12, 15}

NoFile == [exists |-> FALSE]

\* a label and n times the word 2, the p-th of them replaced by w
LineWith(n, p, w) ==
  [i \in 1..(n + 1) |-> IF i = 1 THEN Label ELSE IF i = p + 1 THEN w ELSE Word(2)]

\* "cpu 10 3 7 6 5 4 3 1 2 1" and "cpu 10 3 7 6 5", the lines that give the
\* values test_read_proc_measurement and ..._from_partial expect
FixtureLines ==
  { <<Label, <<"1", "0">>, Word(3), Word(7), Word(6), Word(5), Word(4), Word(3), Word(1), Word(2), Word(1)>>,
    <<Label, <<"1", "0">>, Word(3), Word(7), Word(6), Word(5)>> }

ProcLines ==
  FixtureLines \cup {<<>>}
    \cup UNION {{LineWith(n, p, w) : p \in 1..n, w \in {Word(2), Word(3)}} : n \in 4..MaxStats}
    \cup {LineWith(5, p, Garbage) : p \in 1..5}

ProcFiles == {NoFile} \cup {[exists |-> TRUE, line |-> l] : l \in ProcLines}

StatLines == { <<KeyUser, Word(1)>>, <<KeySystem, Word(1)>>, <<KeyUser>> }

RECURSIVE SeqsUpTo(_, _)
SeqsUpTo(S, n) ==
  IF n = 0 THEN {<<>>}
  ELSE LET shorter == SeqsUpTo(S, n - 1)
       IN shorter \cup {Append(q, x) : q \in shorter, x \in S}

TwoTicks == <<"2", "0", "0", "0", "0", "0", "0", "0">>

SysDirs ==
  {NoFile}
    \cup {[exists |-> TRUE, usage |-> u, stat |-> l] :
            u \in {Zero, TwoTicks}, l \in SeqsUpTo(StatLines, MaxStatLines)}
    \cup {[exists |-> TRUE, usage |-> Garbage, stat |-> <<>>],
          [exists |-> TRUE, usage |-> TwoTicks, stat |-> << <<KeyUser, Garbage>> >>]}

\* CpuStat literals as the tests write them: every counter b, except that
\* counter f is v, and a total t
Uniform(b, f, v, t) ==
  [g \in CpuStatFields |-> IF g = "total" THEN t ELSE IF g = f THEN v ELSE b]

Literals ==
  {Uniform(0, "user", 0, 0), Uniform(0, "user", 0, 60), Uniform(6, "user", 6, 60)}
    \cup {Uniform(6, f, 0, 60) : f \in CounterSet}

(***************************************************************************)
(* The caller takes a first measurement (self), then a second one          *)
(* (next_measurement), calls calculate_per_minute on the pair and          *)
(* in_percentages on the CpuStat it got.  An error or a panic ends the     *)
(* attempt.                                                                *)
(***************************************************************************)
Running == result.outcome.status \in {"None", "Ok"}

Measuring ==
  /\ Running
  /\ next_measurement = NoMeasurement
  /\ result.op # "in_percentages"

Keep(r) ==
  IF r.status # "Ok" THEN UNCHANGED <<self, next_measurement>>
  ELSE IF self = NoMeasurement THEN self' = r.value /\ UNCHANGED next_measurement
  ELSE next_measurement' = r.value /\ UNCHANGED self

Clock == IF self = NoMeasurement THEN FirstTimes ELSE ClockTimes

ReadProcStat ==
  /\ Measuring
  /\ \E file \in ProcFiles, time \in Clock :
       LET r == read_and_parse_proc_stat(file, time)
       IN /\ result' = [op |-> "read_and_parse_proc_stat", file |-> file, outcome |-> r]
          /\ Keep(r)
  /\ UNCHANGED overflow_checks

ReadSysStat ==
  /\ Measuring
  /\ \E dir \in SysDirs, time \in Clock :
       LET r == read_and_parse_sys_stat(dir, time)
       IN /\ result' = [op |-> "read_and_parse_sys_stat", dir |-> dir, outcome |-> r]
          /\ Keep(r)
  /\ UNCHANGED overflow_checks

\* a CpuMeasurement struct literal (all fields are pub), as in the tests
NewCpuMeasurement ==
  /\ Measuring
  /\ \E time \in (IF self = NoMeasurement THEN FirstTimes ELSE LiteralTimes), stat \in Literals :
       LET r == Ok(CpuMeasurement(time, stat))
       IN /\ result' = [op |-> "CpuMeasurement", outcome |-> r]
          /\ Keep(r)
  /\ UNCHANGED overflow_checks

CalculatePerMinute ==
  /\ Running
  /\ next_measurement # NoMeasurement
  /\ result.op \notin {"calculate_per_minute", "in_percentages"}
  /\ result' = [op |-> "calculate_per_minute",
                outcome |-> calculate_per_minute(self, next_measurement)]
  /\ UNCHANGED <<overflow_checks, self, next_measurement>>

\* in_percentages of the CpuStat at hand: the one calculate_per_minute
\* returned, or the first measurement's own
InPercentages ==
  /\ Running
  /\ \/ result.op = "calculate_per_minute"
     \/ self # NoMeasurement /\ next_measurement = NoMeasurement /\ result.op # "in_percentages"
  /\ LET stat == IF result.op = "calculate_per_minute" THEN result.outcome.value ELSE self.stat
     IN result' = [op |-> "in_percentages", stat |-> stat, outcome |-> Ok(in_percentages(stat))]
  /\ UNCHANGED <<overflow_checks, self, next_measurement>>

Init ==
  /\ overflow_checks \in BOOLEAN
  /\ self = NoMeasurement
  /\ next_measurement = NoMeasurement
  /\ result = [op |-> "start", outcome |-> [status |-> "None"]]

Next ==
  \/ ReadProcStat
  \/ ReadSysStat
  \/ NewCpuMeasurement
  \/ CalculatePerMinute
  \/ InPercentages

Spec == Init /\ [][Next]_vars
(***************************************************************************)
(* Properties.                                                             *)
(***************************************************************************)
Calculated == result.op = "calculate_per_minute"

Elapsed == next_measurement.precise_time_ns - self.precise_time_ns

Increase(f) == next_measurement.stat[f] - self.stat[f]

Decreased(f) == next_measurement.stat[f] < self.stat[f]

NoCounterDecreased == \A f \in CounterSet : ~Decreased(f)

\* the grand total derived from the ten counters
GrandTotal(stat) ==
  stat.user + stat.nice + (stat.system + stat.irq + stat.softirq) + (stat.idle + stat.iowait)
    + stat.steal + (stat.guest + stat.guestnice)

\* C1: for measurements in time order with no counter decreased, each of the
\* ten counters of the result is increase * 60 s / elapsed, truncated (an
\* increase of 6 over 30 s gives 12).  Stated for the build with overflow
\* checks, in which no counter is ever a wrapped value.
C1_ScaledToReferenceInterval ==
  (overflow_checks /\ Calculated /\ Elapsed > 0 /\ NoCounterDecreased /\ result.outcome.status = "Ok")
    => \A f \in CounterSet :
         result.outcome.value[f] = (Increase(f) * ReferenceInterval) \div Elapsed

\* C2: calculate_per_minute returns Err(InvalidInput) whenever the next
\* measurement's timestamp is not strictly greater, equal timestamps
\* included, whatever the counters are.
C2_NotLaterIsInvalidInput ==
  (Calculated /\ Elapsed <= 0) => result.outcome = Err("InvalidInput")

C2_Witness ==
  /\ Calculated
  /\ Elapsed = 0
  /\ \E f \in CounterSet : Decreased(f)
  /\ result.outcome = Err("InvalidInput")

\* C3: with timestamps in order, a counter that is lower in the later
\* measurement makes calculate_per_minute return Err(UnexpectedContent) and
\* no CpuStat.
C3_DecreasedCounterIsUnexpectedContent ==
  (Calculated /\ Elapsed > 0 /\ \E f \in CounterSet : Decreased(f))
    => result.outcome = Err("UnexpectedContent")

C3_Witness ==
  /\ Calculated
  /\ Elapsed > 0
  /\ ~Decreased("total")
  /\ \A f \in CounterSet : Decreased(f) <=> f = "steal"
  /\ result.outcome = Err("UnexpectedContent")

IsZeroPercentage(p) == p.kind = "Finite" /\ p.numerator = 0

\* C4: in_percentages of a CpuStat whose fields are all zero gives ten
\* percentages that are exactly 0.
C4_ZeroTotalGivesZeroPercentages ==
  (result.op = "in_percentages" /\ \A f \in CpuStatFields : result.stat[f] = 0)
    => \A f \in CounterSet : IsZeroPercentage(result.outcome.value[f])

\* C5: every CpuStat the two readers and calculate_per_minute produce has a
\* total equal to the grand total of its own ten counters.  Stated for the
\* build with overflow checks, in which no counter is ever a wrapped value.
C5_TotalIsGrandTotal ==
  overflow_checks =>
  /\ (result.op \in {"read_and_parse_proc_stat", "read_and_parse_sys_stat"}
        /\ result.outcome.status = "Ok")
       => result.outcome.value.stat.total = GrandTotal(result.outcome.value.stat)
  /\ (Calculated /\ result.outcome.status = "Ok")
       => result.outcome.value.total = GrandTotal(result.outcome.value)

RECURSIVE SumOfNumerators(_, _)
SumOfNumerators(percentages, i) ==
  IF i > Len(Counters) THEN 0
  ELSE percentages[Counters[i]].numerator + SumOfNumerators(percentages, i + 1)

\* all ten percentages are numbers with denominator `total`, and their sum
\* 100 * sum / total lies strictly between 99.9 and 100.1
SumWithinTenthOf100(percentages, total) ==
  /\ \A f \in CounterSet : percentages[f].kind = "Finite"
  /\ LET sum == SumOfNumerators(percentages, 1)
         off == IF sum >= total THEN sum - total ELSE total - sum
     IN off <= (total - 1) \div 1000

\* C6: for a CpuStat with a positive grand total the ten percentages of
\* in_percentages add up to within 0.1 of 100.  Stated for the build with
\* overflow checks, in which no counter is ever a wrapped value.
C6_PercentagesSumTo100 ==
  (overflow_checks /\ result.op = "in_percentages" /\ GrandTotal(result.stat) > 0)
    => SumWithinTenthOf100(result.outcome.value, result.stat.total)

\* C7: each field of the result is increase * elapsed / 60 s, truncated
\* (where the u64 product fits); measurements 30 s apart whose counters all
\* rose by 6 (and total by 60) give 3 for every counter and 30 for total.
C7_ScaledByElapsedOverMinute ==
  (Calculated /\ result.outcome.status = "Ok")
    => /\ \A f \in CpuStatFields :
            Increase(f) * Elapsed < Modulus
              => result.outcome.value[f] = (Increase(f) * Elapsed) \div ReferenceInterval
       /\ (Elapsed = 3 /\ Increase("total") = 60 /\ \A f \in CounterSet : Increase(f) = 6)
            => result.outcome.value = Uniform(3, "user", 3, 30)

C7_Witness ==
  /\ Calculated
  /\ Elapsed = 3
  /\ Increase("total") = 60
  /\ \A f \in CounterSet : Increase(f) = 6
  /\ result.outcome = Ok(Uniform(3, "user", 3, 30))

\* the value of the i-th numeric field of the line, 0 when it is absent
NumericField(line, i) == parse_u64(GetOrZero(SubSeq(line, 2, Len(line)), i - 1)).value

\* C8: a line with a label and 5 to 10 numeric fields is read as Ok, with
\* system .. guestnice the 3rd .. 10th field (0 when absent), user the 1st
\* field minus guest and nice the 2nd field minus guestnice.
C8_ProcStatFieldsPositional ==
  (/\ result.op = "read_and_parse_proc_stat"
   /\ result.file.exists
   /\ Len(result.file.line) - 1 \in 5..10
   /\ \A i \in 2..Len(result.file.line) : parse_u64(result.file.line[i]).status = "Ok")
    => /\ result.outcome.status = "Ok"
       /\ LET stat == result.outcome.value.stat
              n(i) == NumericField(result.file.line, i)
          IN /\ \A i \in 3..10 : stat[Counters[i]] = n(i)
             /\ stat.user = n(1) - n(9)
             /\ stat.nice = n(2) - n(10)

HasKey(lines, key) == \E i \in 1..Len(lines) : lines[i][1] = key

\* C9: read_and_parse_sys_stat returns Ok only if cpuacct.stat holds both a
\* `user` line and a `system` line.
C9_OkOnlyWithBothKeys ==
  (result.op = "read_and_parse_sys_stat" /\ result.outcome.status = "Ok")
    => HasKey(result.dir.stat, KeyUser) /\ HasKey(result.dir.stat, KeySystem)

\* C10: calculate_per_minute returns Ok whenever the timestamps are in
\* order and none of the ten counters decreased, whatever the stored totals.
\* Stated for the build with overflow checks, in which no counter is ever a
\* wrapped value.
C10_TotalNeverRejects ==
  (overflow_checks /\ Calculated /\ Elapsed > 0 /\ NoCounterDecreased) => result.outcome.status = "Ok"

\* C11: on a line with at least 5 unsigned-integer fields
\* read_and_parse_proc_stat returns Ok or Err (no arithmetic fault), and the
\* user and nice it stores are never wrapped values: user plus guest is the
\* raw user field and nice plus guestnice the raw nice field, also when
\* guest or guestnice exceeds the raw field.
C11_GuestSubtractionNeverUnderflows ==
  (/\ result.op = "read_and_parse_proc_stat"
   /\ result.file.exists
   /\ Len(result.file.line) - 1 >= 5
   /\ \A i \in 2..Len(result.file.line) : parse_u64(result.file.line[i]).status = "Ok")
    => /\ result.outcome.status \in {"Ok", "Err"}
       /\ result.outcome.status = "Ok"
            => LET stat == result.outcome.value.stat
                   n(i) == NumericField(result.file.line, i)
               IN /\ stat.user + stat.guest = n(1)
                  /\ stat.nice + stat.guestnice = n(2)
====
